---- MODULE Spec2Model ----
(***************************************************************************)
(* The notification queue engine of the-next-food-supabase:                *)
(*   populate-expiring-queue  (the Populator),                             *)
(*   process-expiring-queue   (the Drainer),                               *)
(*   check-items-expiring     (POST stages rows with a plain insert),      *)
(* all working on the table public.expiring_items_queue.                   *)
(*                                                                         *)
(* Time is counted in whole days: a calendar date and a timestamp are both *)
(* a day number, and NOW() is the variable today.                          *)
(***************************************************************************)
EXTENDS Integers, Sequences, FiniteSets, TLC

(* ------------------------------ bounds -------------------------------- *)
\* events in one behaviour: handler invocations (Populator, Drainer, POST), days that
\* pass, and database outages (while one lasts every database call answers with an
\* error; an outage may be as short as a single call)
MaxEvents == 3
\* rows per upsert of the Populator (100 in the source, scaled to the inventory)
BATCH_SIZE == 1

\* the priority functions are applied to the days -PriorityDays..PriorityDays, and to 100
PriorityDays == 20
\* the message is rendered for days_until_expiry in -MessageDays..MessageDays
MessageDays == 4
\* requests per window of telegram-send (30 in the source) and the window in ticks
\* (60 * 1000 ms in the source), scaled to the times and requests of a behaviour
RATE_LIMIT_REQUESTS == 2
RATE_LIMIT_WINDOW == 2
\* the last tick of the clock, and the requests in one behaviour
MaxClock == 4
MaxRequests == 5
\* the limit parameter takes the numerals -LimitTenths/10..LimitTenths/10 in steps of
\* a tenth, and some around the cap
LimitTenths == 30
\* the last day the clock reaches when days pass between the invocations
MaxDay == 9

(* ------------------------- program constants -------------------------- *)
DEFAULT_DAYS_AHEAD == 7
RETENTION_DAYS == 7
\* SQL NULL of a nullable column (a timestamp or a chat id is never negative here)
NULL == -1

Items == {"milk", "yogurt", "eggs"}
Users == {"u1", "u2"}
Populators == {"P1"}
Drainers == {"D1", "D2"}
\* the expiration date an edited item is moved to
EditedDate == 8
\* days_ahead values a POST to check-items-expiring is called with
PostDaysChoices == {7}

Max(a, b) == IF a >= b THEN a ELSE b
Min(a, b) == IF a <= b THEN a ELSE b

\* the elements of a sequence
Range(s) == {s[k] : k \in 1..Len(s)}

\* every ordering of a finite set as a sequence without repetition
Perms(S) == {s \in [1..Cardinality(S) -> S] : \A a, b \in 1..Cardinality(S) : a # b => s[a] # s[b]}

(* --------------------------- priority --------------------------------- *)
getNotificationPriority_Strict(daysUntilExpiry) ==
    IF daysUntilExpiry < 0 THEN "urgent"
    ELSE IF daysUntilExpiry < 2 THEN "high"
    ELSE IF daysUntilExpiry < 6 THEN "medium"
    ELSE "low"

\* populate-expiring-queue: priority of a row from its days until expiry
getNotificationPriority(daysUntilExpiry) ==
    IF daysUntilExpiry <= 0 THEN "urgent"
    ELSE IF daysUntilExpiry <= 2 THEN "high"
    ELSE IF daysUntilExpiry <= 6 THEN "medium"
    ELSE "low"

\* check-items-expiring: the same mapping, written with a separate test for expired items
getPriority(daysUntilExpiry) ==
    IF daysUntilExpiry < 0 THEN "urgent"
    ELSE IF daysUntilExpiry <= 0 THEN "urgent"
    ELSE IF daysUntilExpiry <= 2 THEN "high"
    ELSE IF daysUntilExpiry <= 6 THEN "medium"
    ELSE "low"

\* check-items-expiring: whole days from today's midnight to the expiration date
calculateDaysUntilExpiry(expirationDate, now) == expirationDate - now

(* ----------------------------- state ---------------------------------- *)
VARIABLES
    today,        \* the clock, in days
    uniqueKey,    \* whether the table has a unique index on (food_item_id, days_until_expiry)
    food_items,   \* the inventory: item -> [user_id, name, expiration_date]
    chat_ids,     \* users.chat_id: user -> chat id or NULL
    queue,        \* expiring_items_queue: a set of rows
    nextId,       \* the next generated row id
    pop,          \* Populator invocations: p -> its position and response
    drain,        \* Drainer invocations: d -> its position, selection and counts
    post,         \* the check-items-expiring POST invocation
    events,       \* events so far
    db_up,        \* whether the database answers
    lastRun,      \* history: what the last completed Populator run left behind
    prio,         \* the priority functions applied to an input: [days, populator, check_items]
    render,       \* createNotificationMessage applied to a row: [item, message]
    rateLimit,    \* telegram-send: the in-memory Map client -> [count, resetTime]
    clock,        \* telegram-send: Date.now(), in ticks
    requests,     \* history: the requests telegram-send has answered, [client, time, ok]
    limitQuery,   \* expiring-items: the limit parameter of a request and the limit passed to the query
    secrets,      \* telegram-send: the configured TELEGRAM_BOT_TOKEN, TELEGRAM_SEND_SECRET, SUPABASE_SERVICE_ROLE_KEY
    response,     \* telegram-send: the last request and what the handler did with it
    callback,     \* the last request handle-webhook-callback answered
    checkQuery    \* the last request for which check-items-expiring set its row limit

vars == <<today, uniqueKey, food_items, chat_ids, queue, nextId, pop, drain, post, events, db_up,
          lastRun, prio, render, rateLimit, clock, requests, limitQuery, secrets, response, callback, checkQuery>>


(* ------------------------ the queue table ----------------------------- *)
SameKey_PrimaryKey(r, c) == "id" \in DOMAIN c /\ r.id = c.id

\* the conflict target of the Populator's upsert
SameKey(r, c) ==
    /\ r.food_item_id = c.food_item_id
    /\ r.days_until_expiry = c.days_until_expiry

\* INSERT of a payload: id, created_at and processed_at take the column defaults
NewRow(c, id, now) ==
    [id |-> id,
     food_item_id |-> c.food_item_id,
     user_id |-> c.user_id,
     chat_id |-> c.chat_id,
     item_name |-> c.item_name,
     expiration_date |-> c.expiration_date,
     days_until_expiry |-> c.days_until_expiry,
     notification_priority |-> c.notification_priority,
     scheduled_at |-> c.scheduled_at,
     status |-> c.status,
     processed_at |-> NULL,
     created_at |-> now]

MergeRow_KeepStatus(r, c) ==
    [r EXCEPT !.user_id = c.user_id,
              !.chat_id = c.chat_id,
              !.item_name = c.item_name,
              !.expiration_date = c.expiration_date,
              !.notification_priority = c.notification_priority,
              !.scheduled_at = c.scheduled_at]

\* ON CONFLICT DO UPDATE (ignoreDuplicates: false): every column of the payload is
\* overwritten, the columns the payload does not carry (id, created_at, processed_at) stay
MergeRow(r, c) ==
    [r EXCEPT !.user_id = c.user_id,
              !.chat_id = c.chat_id,
              !.item_name = c.item_name,
              !.expiration_date = c.expiration_date,
              !.notification_priority = c.notification_priority,
              !.scheduled_at = c.scheduled_at,
              !.status = c.status]

\* one upsert statement over a batch of payloads, on the conflict target SameKey
RECURSIVE Upsert(_, _, _, _)
Upsert(q, batch, id, now) ==
    IF batch = <<>> THEN [queue |-> q, nextId |-> id]
    ELSE LET c == Head(batch)
             hit == {r \in q : SameKey(r, c)}
         IN IF hit # {}
            THEN Upsert((q \ hit) \cup {MergeRow(r, c) : r \in hit}, Tail(batch), id, now)
            ELSE Upsert(q \cup {NewRow(c, id, now)}, Tail(batch), id + 1, now)

(* --------------------------- Populator -------------------------------- *)
UserOrd(u) == IF u = "u1" THEN 1 ELSE 2

\* the payload the Populator builds for one inventory item at offset daysAhead
QueueItem(i, daysAhead, now) ==
    [food_item_id |-> i,
     user_id |-> food_items[i].user_id,
     chat_id |-> chat_ids[food_items[i].user_id],
     item_name |-> food_items[i].name,
     expiration_date |-> food_items[i].expiration_date,
     days_until_expiry |-> daysAhead,
     notification_priority |-> getNotificationPriority(daysAhead),
     scheduled_at |-> now,
     status |-> "pending"]

\* the items fetched for the target date
ExpiringItems(daysAhead) == {i \in Items : food_items[i].expiration_date = today + daysAhead}

UsersWithChat_All(ids) == ids

\* the users among ids whose chat_id is not null (the lookup is taken to answer from
\* the chat ids of the users table)
UsersWithChat(ids) == {u \in ids : chat_ids[u] # NULL}

\* the items that pass the userMap filter
Eligible(daysAhead) ==
    {i \in ExpiringItems(daysAhead) :
        food_items[i].user_id \in UsersWithChat({food_items[j].user_id : j \in ExpiringItems(daysAhead)})}

\* the fetched order (ORDER BY user_id), ties in any order
FetchOrders(S) ==
    {s \in Perms(S) : \A a, b \in 1..Len(s) :
        a < b => UserOrd(food_items[s[a]].user_id) <= UserOrd(food_items[s[b]].user_id)}

NumBatches(n) == (n + BATCH_SIZE - 1) \div BATCH_SIZE

\* the Populator's response after the last offset
PopResponse(results, total) ==
    [success |-> TRUE, status |-> 200, total_processed |-> total, results |-> results]

\* no response returned yet
NoPopResponse == [success |-> FALSE, status |-> 0, total_processed |-> 0, results |-> <<>>]

\* history of an invocation that does not follow another one directly
NoPrev == [rows |-> NULL, clean |-> FALSE]

\* the days_ahead a manual trigger puts in the request body; the daily cron job sends
\* an empty body (NULL)
ManualDaysAhead == 2

RequestBodies == {NULL, ManualDaysAhead}

\* an invocation: the days_ahead of its request body (the handler never reads it), its
\* loop position, totals and response; and, as history, whether its
\* retention sweep succeeded (swept), the ids of the rows its upserts wrote (wrote), how
\* many rows each offset upserted (writes), and what the run directly before it left (prev)
PopIdle ==
    [pc |-> "idle", days |-> 0, total |-> 0, results |-> <<>>, resp |-> NoPopResponse,
     swept |-> FALSE, wrote |-> {}, writes |-> <<>>, prev |-> NoPrev, body |-> NULL]

\* no database call of the invocation has failed
Clean(st) == st.swept /\ \A k \in 1..Len(st.results) : ~st.results[k].error

PopAfter_StopOnError(p, res, ids) ==
    LET results == Append(pop[p].results, res)
        total == IF res.error THEN pop[p].total ELSE pop[p].total + res.processed
    IN IF pop[p].days < DEFAULT_DAYS_AHEAD /\ ~res.error
       THEN [pop EXCEPT ![p].days = @ + 1, ![p].total = total, ![p].results = results,
                        ![p].wrote = @ \cup ids,
                        ![p].writes = Append(@, Cardinality(ids))]
       ELSE [pop EXCEPT ![p].pc = "done", ![p].days = 0, ![p].total = total,
                        ![p].results = results, ![p].wrote = @ \cup ids,
                        ![p].writes = Append(@, Cardinality(ids)),
                        ![p].resp = PopResponse(results, total)]

\* what one offset leaves in the invocation: the result is pushed, the total grows,
\* and after offset DEFAULT_DAYS_AHEAD the response is returned
PopAfter(p, res, ids) ==
    LET results == Append(pop[p].results, res)
        total == IF res.error THEN pop[p].total ELSE pop[p].total + res.processed
    IN IF pop[p].days < DEFAULT_DAYS_AHEAD
       THEN [pop EXCEPT ![p].days = @ + 1, ![p].total = total, ![p].results = results,
                        ![p].wrote = @ \cup ids,
                        ![p].writes = Append(@, Cardinality(ids))]
       ELSE [pop EXCEPT ![p].pc = "done", ![p].days = 0, ![p].total = total,
                        ![p].results = results, ![p].wrote = @ \cup ids,
                        ![p].writes = Append(@, Cardinality(ids)),
                        ![p].resp = PopResponse(results, total)]

\* the invocation starts directly after a completed one: the same day, the same
\* inventory, and no row inserted in between
InSuccession ==
    /\ lastRun.rows # NULL
    /\ lastRun.day = today
    /\ lastRun.items = food_items
    /\ lastRun.nextId = nextId

PopulatorStart_SweepTerminalOnly(p, body) ==
    /\ pop[p].pc = "idle"
    /\ events < MaxEvents
    /\ events' = events + 1
    /\ pop' = [pop EXCEPT ![p] =
                  [PopIdle EXCEPT !.pc = "run", !.swept = db_up, !.body = body,
                                  !.prev = IF InSuccession
                                           THEN [rows |-> lastRun.rows, clean |-> lastRun.clean]
                                           ELSE NoPrev]]
    /\ queue' = IF db_up
                THEN {r \in queue : ~(/\ r.created_at < today - RETENTION_DAYS
                                      /\ r.status \in {"sent", "failed"})}
                ELSE queue
    /\ UNCHANGED <<today, uniqueKey, lastRun, prio, food_items, chat_ids, nextId, drain, post, db_up, render, rateLimit, clock, requests, limitQuery, secrets, response, callback, checkQuery>>

PopulatorStart_AbortOnSweepError(p, body) ==
    /\ pop[p].pc = "idle"
    /\ events < MaxEvents
    /\ events' = events + 1
    /\ pop' = [pop EXCEPT ![p] =
                  IF db_up
                  THEN [PopIdle EXCEPT !.pc = "run", !.swept = TRUE, !.body = body,
                                       !.prev = IF InSuccession
                                                THEN [rows |-> lastRun.rows, clean |-> lastRun.clean]
                                                ELSE NoPrev]
                  ELSE [PopIdle EXCEPT !.pc = "done", !.body = body,
                                       !.resp = [success |-> FALSE, status |-> 500,
                                                 total_processed |-> 0, results |-> <<>>]]]
    /\ queue' = IF db_up
                THEN {r \in queue : ~(r.created_at < today - RETENTION_DAYS)}
                ELSE queue
    /\ UNCHANGED <<today, uniqueKey, lastRun, prio, food_items, chat_ids, nextId, drain, post, db_up, render, rateLimit, clock, requests, limitQuery, secrets, response, callback, checkQuery>>

\* POST populate-expiring-queue: the retention sweep (its error is only logged), then
\* the loop starts at offset 0
PopulatorStart(p, body) ==
    /\ pop[p].pc = "idle"
    /\ events < MaxEvents
    /\ events' = events + 1
    /\ pop' = [pop EXCEPT ![p] =
                  [PopIdle EXCEPT !.pc = "run", !.swept = db_up, !.body = body,
                                  !.prev = IF InSuccession
                                           THEN [rows |-> lastRun.rows, clean |-> lastRun.clean]
                                           ELSE NoPrev]]
    /\ queue' = IF db_up
                THEN {r \in queue : ~(r.created_at < today - RETENTION_DAYS)}
                ELSE queue
    /\ UNCHANGED <<today, uniqueKey, lastRun, prio, food_items, chat_ids, nextId, drain, post, db_up, render, rateLimit, clock, requests, limitQuery, secrets, response, callback, checkQuery>>

\* the response has been delivered: the invocation's memory is gone
PopulatorReturn(p) ==
    /\ pop[p].pc = "done"
    /\ pop' = [pop EXCEPT ![p] = PopIdle]
    /\ UNCHANGED <<today, uniqueKey, lastRun, prio, food_items, chat_ids, queue, nextId, drain, post, events, db_up, render, rateLimit, clock, requests, limitQuery, secrets, response, callback, checkQuery>>

\* populateQueueForDayRange(days) for the invocation's current offset
PopulatorOffset(p) ==
    /\ pop[p].pc = "run"
    /\ LET d == pop[p].days
           fail == [days_ahead |-> d, processed |-> 0, error |-> TRUE]
       IN \/ \* the fetch of the items fails
             /\ ~db_up
             /\ pop' = PopAfter(p, fail, {})
             /\ UNCHANGED <<queue, nextId, db_up, events>>
          \/ \* nothing expires on the target date, or no owner has a chat id
             /\ db_up
             /\ Eligible(d) = {}
             /\ pop' = PopAfter(p, [days_ahead |-> d, processed |-> 0, error |-> FALSE], {})
             /\ UNCHANGED <<queue, nextId, db_up, events>>
          \/ \* the batches are upserted in order; the call before batch f may be the
             \* first of an outage (f = 0: the fetch of the users), and without the
             \* unique index the first upsert is rejected
             /\ db_up
             /\ Eligible(d) # {}
             /\ \E ord \in FetchOrders(Eligible(d)) :
                \E f \in 0..(NumBatches(Len(ord)) + 1) :
                   LET ok == f > NumBatches(Len(ord))
                       written == SubSeq(ord, 1, Min(Len(ord), Max(0, f - 1) * BATCH_SIZE))
                       payload == [k \in 1..Len(written) |-> QueueItem(written[k], d, today)]
                       after == Upsert(queue, payload, nextId, today)
                       ids == {r.id : r \in {x \in after.queue :
                                  \E k \in 1..Len(payload) : SameKey(x, payload[k])}}
                   IN /\ \/ /\ uniqueKey /\ ok
                            /\ UNCHANGED <<db_up, events>>
                         \/ /\ ~uniqueKey /\ f = 1
                            /\ UNCHANGED <<db_up, events>>
                         \/ /\ ~ok /\ (uniqueKey \/ f = 0)
                            /\ events < MaxEvents
                            /\ events' = events + 1
                            /\ db_up' = FALSE
                      /\ queue' = after.queue
                      /\ nextId' = after.nextId
                      /\ pop' = PopAfter(p, IF ok
                                            THEN [days_ahead |-> d, processed |-> Len(ord),
                                                  error |-> FALSE]
                                            ELSE fail, ids)
    /\ lastRun' = IF pop'[p].pc = "done"
                  THEN [rows |-> Cardinality(queue'), clean |-> Clean(pop'[p]),
                        day |-> today, items |-> food_items, nextId |-> nextId']
                  ELSE lastRun
    /\ UNCHANGED <<today, uniqueKey, prio, food_items, chat_ids, drain, post, render, rateLimit, clock, requests, limitQuery, secrets, response, callback, checkQuery>>

(* ---------------------------- Drainer --------------------------------- *)
\* the letters of a priority as their positions in the alphabet: the column is TEXT
PriorityText(p) ==
    IF p = "high" THEN <<8, 9, 7, 8>>
    ELSE IF p = "low" THEN <<12, 15, 23>>
    ELSE IF p = "medium" THEN <<13, 5, 4, 9, 21, 13>>
    ELSE <<21, 18, 7, 5, 14, 20>>

\* a < b as texts
RECURSIVE TextLess(_, _)
TextLess(a, b) ==
    IF b = <<>> THEN FALSE
    ELSE IF a = <<>> THEN TRUE
    ELSE IF Head(a) # Head(b) THEN Head(a) < Head(b)
    ELSE TextLess(Tail(a), Tail(b))

\* ORDER BY notification_priority DESC: p sorts strictly before q
PriorityBefore(p, q) == TextLess(PriorityText(q), PriorityText(p))

\* ORDER BY notification_priority DESC, scheduled_at ASC: a may not come after b
MustPrecede(a, b) ==
    \/ PriorityBefore(a.notification_priority, b.notification_priority)
    \/ /\ a.notification_priority = b.notification_priority
       /\ a.scheduled_at < b.scheduled_at

\* rows one invocation selects at most (1000 in the source, scaled to the queue)
SELECT_LIMIT == 2

\* WHERE status = 'pending'
SelectPending(q) == {r \in q : r.status = "pending"}

Selections_NoLimit(q) ==
    {t \in Perms(SelectPending(q)) : \A a, b \in 1..Len(t) : a < b => ~MustPrecede(t[b], t[a])}

\* the answers the select may give: the pending rows in the ORDER BY order, ties in
\* any order, cut at the limit
Selections(q) ==
    {SubSeq(s, 1, Min(Len(s), SELECT_LIMIT)) :
        s \in {t \in Perms(SelectPending(q)) :
                 \A a, b \in 1..Len(t) : a < b => ~MustPrecede(t[b], t[a])}}

updateQueueItemStatus_NoWhere(q, itemId, status, processedAt) ==
    {[r EXCEPT !.status = status,
               !.processed_at = IF processedAt # NULL THEN processedAt ELSE @] : r \in q}

updateQueueItemStatus_Reschedules(q, itemId, status, processedAt) ==
    {IF r.id = itemId
     THEN [r EXCEPT !.status = status,
                    !.processed_at = IF processedAt # NULL THEN processedAt ELSE @,
                    !.scheduled_at = today + 1]
     ELSE r : r \in q}

\* updateQueueItemStatus: UPDATE ... SET status [, processed_at] WHERE id = itemId
updateQueueItemStatus(q, itemId, status, processedAt) ==
    {IF r.id = itemId
     THEN [r EXCEPT !.status = status,
                    !.processed_at = IF processedAt # NULL THEN processedAt ELSE @]
     ELSE r : r \in q}

NoDrainResponse ==
    [success |-> FALSE, status |-> 0, total_processed |-> 0, total_sent |-> 0, total_failed |-> 0]

\* an invocation: its position, the selected rows, the outcomes of its sends, its counts
\* and response; and, as history, the calls it has issued in their order (log) and
\* whether it overlapped with another invocation (peer)
DrainIdle ==
    [pc |-> "idle", sel |-> <<>>, idx |-> 0, outcomes |-> <<>>,
     sent |-> 0, failed |-> 0, peer |-> FALSE, resp |-> NoDrainResponse, log |-> <<>>]

OtherDrainer(d) == CHOOSE e \in Drainers : e # d

Running(d) == drain[d].pc \in {"mark", "send", "record"}

DrainerStart_IgnoreFetchError(d) ==
    /\ drain[d].pc = "idle"
    /\ d = "D1" \/ Running("D1")
    /\ events < MaxEvents
    /\ events' = events + 1
    /\ \/ /\ ~db_up \/ SelectPending(queue) = {}
          /\ drain' = [drain EXCEPT ![d] =
                 [DrainIdle EXCEPT !.pc = "done", !.resp.success = TRUE, !.resp.status = 200]]
       \/ /\ db_up
          /\ SelectPending(queue) # {}
          /\ \E sel \in Selections(queue) :
                drain' = [e \in Drainers |->
                    IF e = d
                    THEN [DrainIdle EXCEPT !.pc = "mark", !.sel = sel, !.idx = 1,
                                           !.peer = Running(OtherDrainer(d))]
                    ELSE [drain[e] EXCEPT !.peer = @ \/ Running(e)]]
    /\ UNCHANGED <<today, uniqueKey, lastRun, prio, food_items, chat_ids, queue, nextId, pop, post, db_up, render, rateLimit, clock, requests, limitQuery, secrets, response, callback, checkQuery>>

\* POST process-expiring-queue: the select of the pending rows
DrainerStart(d) ==
    /\ drain[d].pc = "idle"
    /\ d = "D1" \/ Running("D1")
    /\ events < MaxEvents
    /\ events' = events + 1
    /\ \/ \* the fetch fails: 500
          /\ ~db_up
          /\ drain' = [drain EXCEPT ![d] = [DrainIdle EXCEPT !.pc = "done", !.resp.status = 500]]
       \/ \* nothing pending
          /\ db_up
          /\ SelectPending(queue) = {}
          /\ drain' = [drain EXCEPT ![d] =
                 [DrainIdle EXCEPT !.pc = "done", !.resp.success = TRUE, !.resp.status = 200]]
       \/ /\ db_up
          /\ SelectPending(queue) # {}
          /\ \E sel \in Selections(queue) :
                drain' = [e \in Drainers |->
                    IF e = d
                    THEN [DrainIdle EXCEPT !.pc = "mark", !.sel = sel, !.idx = 1,
                                           !.peer = Running(OtherDrainer(d))]
                    ELSE [drain[e] EXCEPT !.peer = @ \/ Running(e)]]
    /\ UNCHANGED <<today, uniqueKey, lastRun, prio, food_items, chat_ids, queue, nextId, pop, post, db_up, render, rateLimit, clock, requests, limitQuery, secrets, response, callback, checkQuery>>

\* the same invocation, fired by the cron job of the Drainer: the schedule goes on for
\* ever, it is not one of the counted events
DrainerCron(d) ==
    /\ drain[d].pc = "idle"
    /\ \/ \* the fetch fails: 500
          /\ ~db_up
          /\ drain' = [drain EXCEPT ![d] = [DrainIdle EXCEPT !.pc = "done", !.resp.status = 500]]
       \/ \* nothing pending
          /\ db_up
          /\ SelectPending(queue) = {}
          /\ drain' = [drain EXCEPT ![d] =
                 [DrainIdle EXCEPT !.pc = "done", !.resp.success = TRUE, !.resp.status = 200]]
       \/ /\ db_up
          /\ SelectPending(queue) # {}
          /\ \E sel \in Selections(queue) :
                drain' = [drain EXCEPT ![d] = [DrainIdle EXCEPT !.pc = "mark", !.sel = sel,
                                                                !.idx = 1]]
    /\ UNCHANGED <<today, uniqueKey, lastRun, prio, food_items, chat_ids, queue, nextId, pop, post, events, db_up, render, rateLimit, clock, requests, limitQuery, secrets, response, callback, checkQuery>>

\* processQueueBatch, first write of a row: status processing (an error is only logged)
DrainerMark(d) ==
    /\ drain[d].pc = "mark"
    /\ queue' = IF db_up
                THEN updateQueueItemStatus(queue, drain[d].sel[drain[d].idx].id,
                                           "processing", NULL)
                ELSE queue
    /\ drain' = [drain EXCEPT ![d].pc = "send",
                              ![d].log = Append(@, [op |-> "processing",
                                                    id |-> drain[d].sel[drain[d].idx].id])]
    /\ UNCHANGED <<today, uniqueKey, lastRun, prio, food_items, chat_ids, nextId, pop, post, events, db_up, render, rateLimit, clock, requests, limitQuery, secrets, response, callback, checkQuery>>

DrainerSend_AllAtOnce(d) ==
    /\ drain[d].pc = "send"
    /\ \E ok \in BOOLEAN :
          LET rest == [k \in 1..(Len(drain[d].sel) - drain[d].idx + 1) |->
                          [op |-> "send", id |-> drain[d].sel[drain[d].idx + k - 1].id]]
          IN drain' = [drain EXCEPT ![d].pc = "record", ![d].outcomes = Append(@, ok),
                                    ![d].log = @ \o rest]
    /\ UNCHANGED <<today, uniqueKey, lastRun, prio, food_items, chat_ids, queue, nextId, pop, post, events, db_up, render, rateLimit, clock, requests, limitQuery, secrets, response, callback, checkQuery>>

\* sendTelegramNotification: the channel answers ok or not (every error is caught)
DrainerSend(d) ==
    /\ drain[d].pc = "send"
    /\ \E ok \in BOOLEAN :
          drain' = [drain EXCEPT ![d].pc = "record", ![d].outcomes = Append(@, ok),
                                 ![d].log = Append(@, [op |-> "send",
                                                       id |-> drain[d].sel[drain[d].idx].id])]
    /\ UNCHANGED <<today, uniqueKey, lastRun, prio, food_items, chat_ids, queue, nextId, pop, post, events, db_up, render, rateLimit, clock, requests, limitQuery, secrets, response, callback, checkQuery>>

DrainResponse_SentOnly(n, sent, failed) ==
    [success |-> TRUE, status |-> 200, total_processed |-> sent,
     total_sent |-> sent, total_failed |-> failed]

\* the response after the last batch
DrainResponse(n, sent, failed) ==
    [success |-> TRUE, status |-> 200, total_processed |-> n,
     total_sent |-> sent, total_failed |-> failed]

\* processQueueBatch, second write of a row: sent with processed_at, or failed
DrainerRecord(d) ==
    /\ drain[d].pc = "record"
    /\ LET st == drain[d]
           item == st.sel[st.idx]
           ok == st.outcomes[st.idx]
           sent == IF ok THEN st.sent + 1 ELSE st.sent
           failed == IF ok THEN st.failed ELSE st.failed + 1
           log == Append(st.log, [op |-> IF ok THEN "sent" ELSE "failed", id |-> item.id])
       IN /\ queue' = IF ~db_up THEN queue
                      ELSE IF ok
                      THEN updateQueueItemStatus(queue, item.id, "sent", today)
                      ELSE updateQueueItemStatus(queue, item.id, "failed", NULL)
          /\ drain' = IF st.idx < Len(st.sel)
                      THEN [drain EXCEPT ![d].pc = "mark", ![d].idx = @ + 1, ![d].log = log,
                                         ![d].sent = sent, ![d].failed = failed]
                      ELSE [drain EXCEPT ![d].pc = "done", ![d].log = log,
                                         ![d].sent = sent, ![d].failed = failed,
                                         ![d].resp = DrainResponse(sent + failed, sent, failed)]
    /\ UNCHANGED <<today, uniqueKey, lastRun, prio, food_items, chat_ids, nextId, pop, post, events, db_up, render, rateLimit, clock, requests, limitQuery, secrets, response, callback, checkQuery>>


\* the call the invocation is waiting for (the update of the status, or the fetch to
\* telegram-send) never answers: the await has no timeout and no abort signal, the
\* invocation has no further step
DrainerCallHangs(d) ==
    /\ Running(d)
    /\ events < MaxEvents
    /\ events' = events + 1
    /\ drain' = [drain EXCEPT ![d].pc = "hung"]
    /\ UNCHANGED <<today, uniqueKey, lastRun, prio, food_items, chat_ids, queue, nextId, pop, post, db_up, render, rateLimit, clock, requests, limitQuery, secrets, response, callback, checkQuery>>

\* the runtime ends an invocation in the middle of its run (a crash, the time limit):
\* nothing more is written and no response is returned
DrainerCrash(d) ==
    /\ Running(d)
    /\ drain' = [drain EXCEPT ![d] = DrainIdle]
    /\ UNCHANGED <<today, uniqueKey, lastRun, prio, food_items, chat_ids, queue, nextId, pop, post, events, db_up, render, rateLimit, clock, requests, limitQuery, secrets, response, callback, checkQuery>>

\* the response has been delivered: the invocation's memory is gone
DrainerReturn(d) ==
    /\ drain[d].pc = "done"
    /\ drain' = [drain EXCEPT ![d] = DrainIdle]
    /\ UNCHANGED <<today, uniqueKey, lastRun, prio, food_items, chat_ids, queue, nextId, pop, post, events, db_up, render, rateLimit, clock, requests, limitQuery, secrets, response, callback, checkQuery>>

\* createNotificationMessage: the text as the sequence of its pieces, the template
\* chosen by days_until_expiry === 0, === 1, or anything else
createNotificationMessage(item) ==
    (IF item.days_until_expiry = 0
     THEN <<"ALERT: Your ", item.quantity, " ", item.unit, " of ", item.item_name,
            " expires TODAY!">>
     ELSE IF item.days_until_expiry = 1
     THEN <<"WARNING: Your ", item.quantity, " ", item.unit, " of ", item.item_name,
            " expires TOMORROW!">>
     ELSE <<"REMINDER: Your ", item.quantity, " ", item.unit, " of ", item.item_name,
            " expires in ", item.days_until_expiry, " days.">>)
    \o <<"\nCategory: ", item.category>>

\* the fields of a queue row the message is made of
MessageItems ==
    [item_name : {"old", "new"}, quantity : {1, 2}, unit : {"l", "pcs"},
     category : {"dairy", "other"}, days_until_expiry : -MessageDays..MessageDays]

\* no message rendered
NoRender ==
    [item |-> [item_name |-> "old", quantity |-> 1, unit |-> "l", category |-> "dairy",
               days_until_expiry |-> 0],
     message |-> <<>>]

(* ------------------- telegram-send: rate limiting --------------------- *)
\* the callers, by the address telegram-send reads from x-forwarded-for
Clients == {"a", "b"}

\* rateLimit.get(clientIP) of a client the Map has no entry for
NoClientData == [count |-> 0, resetTime |-> NULL]

\* the empty Map
NoRateLimit == [c \in Clients |-> NoClientData]

checkRateLimit_CountsRejected(map, clientIP, now) ==
    LET clientData == map[clientIP]
    IN IF clientData = NoClientData \/ now > clientData.resetTime
       THEN [ok |-> TRUE,
             map |-> [map EXCEPT ![clientIP] = [count |-> 1,
                                                 resetTime |-> now + RATE_LIMIT_WINDOW]]]
       ELSE [ok |-> clientData.count < RATE_LIMIT_REQUESTS,
             map |-> [map EXCEPT ![clientIP].count = Min(@ + 1, RATE_LIMIT_REQUESTS + 1)]]

\* checkRateLimit: the answer and the Map it leaves
checkRateLimit(map, clientIP, now) ==
    LET clientData == map[clientIP]
    IN IF clientData = NoClientData \/ now > clientData.resetTime
       THEN [ok |-> TRUE,
             map |-> [map EXCEPT ![clientIP] = [count |-> 1,
                                                 resetTime |-> now + RATE_LIMIT_WINDOW]]]
       ELSE IF clientData.count >= RATE_LIMIT_REQUESTS
       THEN [ok |-> FALSE, map |-> map]
       ELSE [ok |-> TRUE, map |-> [map EXCEPT ![clientIP].count = @ + 1]]

\* an authenticated, well-formed request of a client reaches the rate limiting check:
\* 429 when checkRateLimit answers false
TelegramSend(clientIP) ==
    /\ Len(requests) < MaxRequests
    /\ LET answer == checkRateLimit(rateLimit, clientIP, clock)
       IN /\ rateLimit' = answer.map
          /\ requests' = Append(requests, [client |-> clientIP, time |-> clock, ok |-> answer.ok])
    /\ UNCHANGED <<today, uniqueKey, food_items, chat_ids, queue, nextId, pop, drain, post,
                   events, db_up, lastRun, prio, render, clock, limitQuery, secrets, response, callback, checkQuery>>

\* time passes
Tick ==
    /\ clock < MaxClock
    /\ clock' = clock + 1
    /\ UNCHANGED <<today, uniqueKey, food_items, chat_ids, queue, nextId, pop, drain, post,
                   events, db_up, lastRun, prio, render, rateLimit, requests, limitQuery, secrets, response, callback, checkQuery>>

\* a secret that is not configured, a header that is not sent
Absent == "absent"

\* the environment of the function: each secret is set or not
SecretChoices ==
    [token : {Absent, "bot-token"}, sendSecret : {Absent, "secret"}, serviceRoleKey : {Absent, "key"}]

\* nothing configured
NoSecrets == [token |-> Absent, sendSecret |-> Absent, serviceRoleKey |-> Absent]

\* the requests: the caller, the method, the x-telegram-secret header, the token of an
\* Authorization: Bearer header, and the body: complete (JSON with chat_id and text),
\* incomplete (JSON without one of them), invalid (not parsable), or text (another
\* content type)
TelegramRequests ==
    [client : Clients, method : {"POST"}, secret : {Absent, "secret", "guess"},
     bearer : {Absent, "key", "guess"}, body : {"complete", "incomplete", "invalid", "text"}]
      \cup [client : Clients, method : {"GET"}, secret : {Absent}, bearer : {Absent},
            body : {"text"}]

authenticateRequest_SecretOptional(req) ==
    \/ secrets.sendSecret = Absent
    \/ req.secret = secrets.sendSecret
    \/ /\ secrets.serviceRoleKey # Absent
       /\ req.bearer # Absent
       /\ req.bearer = secrets.serviceRoleKey

\* authenticateRequest
authenticateRequest(req) ==
    \/ /\ secrets.sendSecret # Absent
       /\ req.secret # Absent
       /\ req.secret = secrets.sendSecret
    \/ /\ secrets.serviceRoleKey # Absent
       /\ req.bearer # Absent
       /\ req.bearer = secrets.serviceRoleKey

\* no request answered
NoResponse ==
    [req |-> [client |-> "a", method |-> "GET", secret |-> Absent, bearer |-> Absent,
              body |-> "text"],
     status |-> 0, checked |-> FALSE, forwarded |-> FALSE]

\* the response to req: its status, whether the rate limiting check was made and
\* whether bot.api.sendMessage was called
Answer(req, status, checked, forwarded) ==
    [req |-> req, status |-> status, checked |-> checked, forwarded |-> forwarded]

\* the whole handler of telegram-send: method, token, authentication, content type,
\* body, required fields, rate limiting, and the call of the Telegram API, which
\* succeeds or throws
TelegramRequest(req) ==
    /\ IF req.method # "POST"
       THEN response' = Answer(req, 405, FALSE, FALSE) /\ UNCHANGED rateLimit
       ELSE IF secrets.token = Absent
       THEN response' = Answer(req, 500, FALSE, FALSE) /\ UNCHANGED rateLimit
       ELSE IF ~authenticateRequest(req)
       THEN response' = Answer(req, 401, FALSE, FALSE) /\ UNCHANGED rateLimit
       ELSE IF req.body = "text"
       THEN response' = Answer(req, 415, FALSE, FALSE) /\ UNCHANGED rateLimit
       ELSE IF req.body \in {"invalid", "incomplete"}
       THEN response' = Answer(req, 400, FALSE, FALSE) /\ UNCHANGED rateLimit
       ELSE LET answer == checkRateLimit(rateLimit, req.client, clock)
            IN /\ rateLimit' = answer.map
               /\ IF ~answer.ok
                  THEN response' = Answer(req, 429, TRUE, FALSE)
                  ELSE \E sent \in BOOLEAN :
                          response' = Answer(req, IF sent THEN 200 ELSE 500, TRUE, TRUE)
    /\ UNCHANGED <<today, uniqueKey, food_items, chat_ids, queue, nextId, pop, drain, post,
                   events, db_up, lastRun, prio, render, clock, requests, limitQuery, secrets, callback, checkQuery>>

(* --------------------- handle-webhook-callback ------------------------- *)
\* the requests of the database webhook: the method and the body. The body is no
\* JSON ("invalid"), the JSON document null, another JSON value that is no object
\* ("scalar": a number, a text, true), or an object with type, table and record.
\* The record is absent, a queue row without chat_id ("nochat"), a queue row
\* ("row"), or an object with a chat_id and no category ("partial")
WebhookPayloads ==
    [method : {"POST"}, json : {"object"}, type : {"INSERT", "UPDATE"},
     table : {"expiring_items_queue", "food_items"},
     record : {Absent, "nochat", "row", "partial"}]
      \cup [method : {"POST"}, json : {"invalid", "null", "scalar"}, type : {Absent},
            table : {Absent}, record : {Absent}]
      \cup [method : {"GET"}, json : {"invalid"}, type : {Absent}, table : {Absent},
            record : {Absent}]

\* the answers of the select of image_url from food_items
ImageLookups == {"image", "none", "error"}

\* no request answered
NoCallback ==
    [req |-> [method |-> "GET", json |-> "invalid", type |-> Absent, table |-> Absent,
              record |-> Absent],
     status |-> 0, body |-> Absent, calls |-> <<>>, delivered |-> FALSE]

\* shouldSendNotification
shouldSendNotification(payload) ==
    /\ payload.record \in {"row", "partial"}
    /\ payload.type = "INSERT"
    /\ payload.table = "expiring_items_queue"

\* sendTelegramNotification: the calls of the Telegram API it makes. Without a token
\* it returns at once; formatTelegramMessage throws on a record without category
\* before any call, and the throw is caught; a photo is sent when the item has an
\* image and a text otherwise
sendTelegramNotification(record, lookup, delivered) ==
    IF secrets.token = Absent \/ record = "partial" THEN <<>>
    ELSE IF lookup = "image" THEN <<"sendPhoto">>
    ELSE <<"sendMessage">>

\* the whole handler: method, body, decision, notification, answer. The property
\* payload.record is read inside the try block of req.json(), so that the body null
\* throws there and is answered as invalid JSON. The handler writes no table
WebhookCallback(payload, lookup, delivered) ==
    /\ callback' =
          IF payload.method # "POST"
          THEN [NoCallback EXCEPT !.req = payload, !.status = 405,
                                  !.body = "Method Not Allowed"]
          ELSE IF payload.json \in {"invalid", "null"}
          THEN [NoCallback EXCEPT !.req = payload, !.status = 400,
                                  !.body = "Bad Request: invalid JSON"]
          ELSE LET calls == IF payload.json = "object" /\ shouldSendNotification(payload)
                            THEN sendTelegramNotification(payload.record, lookup, delivered)
                            ELSE <<>>
               IN [req |-> payload, status |-> 200, body |-> "ok", calls |-> calls,
                   delivered |-> calls # <<>> /\ delivered]
    /\ UNCHANGED <<today, uniqueKey, food_items, chat_ids, queue, nextId, pop, drain, post,
                   events, db_up, lastRun, prio, render, rateLimit, clock, requests,
                   limitQuery, secrets, response, checkQuery>>

(* ---------------- expiring-items: the queue endpoint -------------------- *)
QUEUE_DEFAULT_LIMIT == 100
QUEUE_MAX_LIMIT == 1000

\* numbers are counted in tenths, so that a limit such as 2.5 can be told from 2 and 3
Tenths == 10

\* the limit query parameter: absent, a text that is not a number, or a numeral
LimitParams ==
    {[kind |-> "absent", tenths |-> 0], [kind |-> "text", tenths |-> 0]}
      \cup {[kind |-> "numeral", tenths |-> t] :
               t \in (-LimitTenths..LimitTenths)
                     \cup {QUEUE_MAX_LIMIT * Tenths - 1, QUEUE_MAX_LIMIT * Tenths,
                           QUEUE_MAX_LIMIT * Tenths + 1, (QUEUE_MAX_LIMIT + 1) * Tenths}}

\* Number(url.searchParams.get('limit')): null becomes 0, a text that is no number NaN
ToNumber(param) ==
    IF param.kind = "absent" THEN [nan |-> FALSE, tenths |-> 0]
    ELSE IF param.kind = "text" THEN [nan |-> TRUE, tenths |-> 0]
    ELSE [nan |-> FALSE, tenths |-> param.tenths]

\* Math.min(Number(limit) || 100, 1000), in tenths: NaN and 0 are falsy
QueueLimit(param) ==
    LET n == ToNumber(param)
        chosen == IF n.nan \/ n.tenths = 0 THEN QUEUE_DEFAULT_LIMIT * Tenths ELSE n.tenths
    IN Min(chosen, QUEUE_MAX_LIMIT * Tenths)

\* no request answered
NoLimitQuery == [param |-> [kind |-> "absent", tenths |-> 0], done |-> FALSE, limit |-> 0]

\* GET expiring-items?endpoint=queue: the limit the query is given
ApplyQueueLimit ==
    /\ ~limitQuery.done
    /\ limitQuery' = [limitQuery EXCEPT !.done = TRUE, !.limit = QueueLimit(limitQuery.param)]
    /\ UNCHANGED <<today, uniqueKey, food_items, chat_ids, queue, nextId, pop, drain, post,
                   events, db_up, lastRun, prio, render, rateLimit, clock, requests, secrets, response, callback, checkQuery>>

(* ---------------- check-items-expiring, POST -------------------------- *)
POST_DEFAULT_LIMIT == 1000

\* the cap of the option validation
MAX_LIMIT == 10000

\* the limit a request supplies: the limit query parameter of a GET, the limit member
\* of the JSON body of a POST. It is absent, a numeral, or something else ("text": a
\* parameter that is no numeral; a member that is a text, null or a boolean)
CheckLimitParams ==
    {[kind |-> "absent", tenths |-> 0], [kind |-> "text", tenths |-> 0]}
      \cup {[kind |-> "numeral", tenths |-> t] :
               t \in (-LimitTenths..LimitTenths)
                     \cup {MAX_LIMIT * Tenths - 1, MAX_LIMIT * Tenths,
                           MAX_LIMIT * Tenths + 1, (MAX_LIMIT + 1) * Tenths}}

\* parseInt of a numeral: the digits before the point, in tenths
ParseInt(tenths) ==
    IF tenths >= 0 THEN (tenths \div Tenths) * Tenths ELSE -(((-tenths) \div Tenths) * Tenths)

\* options.limit: GET takes limit ? parseInt(limit) : undefined, POST takes body.limit
\* as it is
OptionsLimit(method, param) ==
    IF param.kind = "absent" THEN [kind |-> "undefined", tenths |-> 0]
    ELSE IF param.kind = "text"
    THEN [kind |-> IF method = "GET" THEN "NaN" ELSE "other", tenths |-> 0]
    ELSE [kind |-> "number",
          tenths |-> IF method = "GET" THEN ParseInt(param.tenths) ELSE param.tenths]

\* the option validation, and the default of the destructuring: in tenths
ValidateLimit(opt) ==
    LET checked == IF opt.kind = "undefined" THEN opt
                   ELSE IF opt.kind # "number" \/ opt.tenths < 0
                   THEN [kind |-> "number", tenths |-> POST_DEFAULT_LIMIT * Tenths]
                   ELSE opt
        capped == IF checked.kind # "undefined" /\ checked.tenths > MAX_LIMIT * Tenths
                  THEN [kind |-> "number", tenths |-> MAX_LIMIT * Tenths]
                  ELSE checked
    IN IF capped.kind = "undefined" THEN POST_DEFAULT_LIMIT * Tenths ELSE capped.tenths

\* the limits given to the queries, in rows: if (limit > 0) query.limit(limit) on GET,
\* .limit(Math.floor(limit / 2)) on the food and on the cosmetics query on POST; no
\* limit is given otherwise
AppliedLimits(method, limit) ==
    IF limit <= 0 THEN <<>>
    ELSE IF method = "GET" THEN <<limit \div Tenths>>
    ELSE <<limit \div (2 * Tenths), limit \div (2 * Tenths)>>

\* no request answered
NoCheckQuery ==
    [method |-> "GET", param |-> [kind |-> "absent", tenths |-> 0], done |-> FALSE,
     limit |-> 0, applied |-> <<>>]

\* check-items-expiring: the limit of a request, from the parameter to the queries
ApplyCheckLimit ==
    /\ ~checkQuery.done
    /\ LET limit == ValidateLimit(OptionsLimit(checkQuery.method, checkQuery.param))
       IN checkQuery' = [checkQuery EXCEPT !.done = TRUE, !.limit = limit,
                            !.applied = AppliedLimits(checkQuery.method, limit)]
    /\ UNCHANGED <<today, uniqueKey, food_items, chat_ids, queue, nextId, pop, drain, post,
                   events, db_up, lastRun, prio, render, rateLimit, clock, requests,
                   limitQuery, secrets, response, callback>>

\* a JavaScript truthy chat id: neither null nor 0
Truthy(chat) == chat # NULL /\ chat # 0

\* usersMap.get(user_id) || 0
ChatOrZero(u) == IF Truthy(chat_ids[u]) THEN chat_ids[u] ELSE 0

\* the food items with today <= expiration_date <= today + daysAhead
RangeItems(daysAhead) ==
    {i \in Items : /\ food_items[i].expiration_date >= today
                   /\ food_items[i].expiration_date <= today + daysAhead}

\* rawItems.filter(item => usersMap.get(item.user_id))
ItemsWithChatId(S) == {i \in S : Truthy(chat_ids[food_items[i].user_id])}

\* the fetched order (ORDER BY expiration_date ASC), ties in any order, cut at limit / 2
RangeOrders(S) ==
    {SubSeq(s, 1, Min(Len(s), POST_DEFAULT_LIMIT \div 2)) :
        s \in {t \in Perms(S) : \A a, b \in 1..Len(t) :
                 a < b => food_items[t[a]].expiration_date <= food_items[t[b]].expiration_date}}

\* the record insertIntoExpiringQueue builds for one item
QueueRecord(i, now) ==
    [food_item_id |-> i,
     user_id |-> food_items[i].user_id,
     chat_id |-> ChatOrZero(food_items[i].user_id),
     item_name |-> food_items[i].name,
     expiration_date |-> food_items[i].expiration_date,
     days_until_expiry |-> calculateDaysUntilExpiry(food_items[i].expiration_date, now),
     notification_priority |->
         getPriority(calculateDaysUntilExpiry(food_items[i].expiration_date, now)),
     scheduled_at |-> now,
     status |-> "pending"]

NoPostResponse ==
    [success |-> FALSE, status |-> 0, items_inserted |-> 0, items_found |-> 0,
     items_with_chat_id |-> 0]

PostIdle == [pc |-> "idle", records |-> <<>>, idx |-> 0, found |-> 0, inserted |-> 0,
             resp |-> NoPostResponse]

\* POST check-items-expiring: the queries and the records to insert
\* (a cosmetics record carries no food_item_id, which the table requires: it is never stored)
PostStart ==
    /\ post.pc = "idle"
    /\ events < MaxEvents
    /\ events' = events + 1
    /\ \E daysAhead \in PostDaysChoices :
       \/ \* a query fails: the handler throws, 500
          /\ ~db_up
          /\ post' = [PostIdle EXCEPT !.pc = "done", !.resp.status = 500]
       \/ /\ db_up
          /\ \E raw \in RangeOrders(RangeItems(daysAhead)) :
             LET keep == SelectSeq(raw, LAMBDA i : i \in ItemsWithChatId(Range(raw)))
             IN IF keep = <<>>
                THEN post' = [PostIdle EXCEPT !.pc = "done", !.found = Len(raw),
                                              !.resp.success = TRUE, !.resp.status = 200]
                ELSE post' = [PostIdle EXCEPT
                                 !.pc = "insert", !.idx = 1, !.found = Len(raw),
                                 !.records = [k \in 1..Len(keep) |-> QueueRecord(keep[k], today)]]
    /\ UNCHANGED <<today, uniqueKey, lastRun, prio, food_items, chat_ids, queue, nextId, pop, drain, db_up, render, rateLimit, clock, requests, limitQuery, secrets, response, callback, checkQuery>>

\* the record of an item when midnight passes between the two calls of
\* calculateDaysUntilExpiry in its construction: each call reads the clock, the first
\* gives days_until_expiry, the second the argument of getPriority
QueueRecordAcrossMidnight(i, now) ==
    [QueueRecord(i, now) EXCEPT
        !.notification_priority =
            getPriority(calculateDaysUntilExpiry(food_items[i].expiration_date, now + 1)),
        !.scheduled_at = now + 1]

\* POST check-items-expiring when midnight passes while insertIntoExpiringQueue builds
\* the record of the k-th item: the records before it are built on the old day, those
\* after it on the new day
PostStartAtMidnight ==
    /\ post.pc = "idle"
    /\ events < MaxEvents
    /\ events' = events + 1
    /\ db_up
    /\ today' = today + 1
    /\ \E daysAhead \in PostDaysChoices :
          \E raw \in RangeOrders(RangeItems(daysAhead)) :
             LET keep == SelectSeq(raw, LAMBDA i : i \in ItemsWithChatId(Range(raw)))
             IN \E at \in 1..Len(keep) :
                   post' = [PostIdle EXCEPT
                               !.pc = "insert", !.idx = 1, !.found = Len(raw),
                               !.records =
                                   [k \in 1..Len(keep) |->
                                       IF k < at THEN QueueRecord(keep[k], today)
                                       ELSE IF k = at
                                       THEN QueueRecordAcrossMidnight(keep[k], today)
                                       ELSE QueueRecord(keep[k], today + 1)]]
    /\ UNCHANGED <<uniqueKey, lastRun, prio, food_items, chat_ids, queue, nextId, pop, drain, db_up, render, rateLimit, clock, requests, limitQuery, secrets, response, callback, checkQuery>>

\* insertIntoExpiringQueue: one plain INSERT per record, an error is counted and skipped
PostInsert ==
    /\ post.pc = "insert"
    /\ LET rec == post.records[post.idx]
           last == post.idx = Len(post.records)
           done(n) == IF last
                      THEN [post EXCEPT !.pc = "done", !.inserted = n,
                               !.resp = [success |-> TRUE, status |-> 200,
                                         items_inserted |-> n,
                                         items_found |-> post.found,
                                         items_with_chat_id |-> Len(post.records)]]
                      ELSE [post EXCEPT !.idx = @ + 1, !.inserted = n]
       IN \/ \* the row is stored
             /\ db_up
             /\ ~(uniqueKey /\ \E r \in queue : SameKey(r, rec))
             /\ queue' = queue \cup {NewRow(rec, nextId, today)}
             /\ nextId' = nextId + 1
             /\ post' = done(post.inserted + 1)
          \/ \* the unique index rejects a second row of the key
             /\ db_up
             /\ uniqueKey /\ \E r \in queue : SameKey(r, rec)
             /\ post' = done(post.inserted)
             /\ UNCHANGED <<queue, nextId>>
          \/ \* the database does not answer
             /\ ~db_up
             /\ post' = done(post.inserted)
             /\ UNCHANGED <<queue, nextId>>
    /\ UNCHANGED <<today, uniqueKey, lastRun, prio, food_items, chat_ids, pop, drain, events, db_up, render, rateLimit, clock, requests, limitQuery, secrets, response, callback, checkQuery>>

\* the response has been delivered: the invocation's memory is gone
PostReturn ==
    /\ post.pc = "done"
    /\ post' = PostIdle
    /\ UNCHANGED <<today, uniqueKey, lastRun, prio, food_items, chat_ids, queue, nextId, pop, drain, events, db_up, render, rateLimit, clock, requests, limitQuery, secrets, response, callback, checkQuery>>

(* -------------------------- environment ------------------------------- *)
\* midnight passes
AdvanceDay ==
    /\ events < MaxEvents
    /\ events' = events + 1
    /\ today' = today + 1
    /\ UNCHANGED <<uniqueKey, lastRun, prio, food_items, chat_ids, queue, nextId, pop, drain, post, db_up, render, rateLimit, clock, requests, limitQuery, secrets, response, callback, checkQuery>>

\* days pass between two invocations: the cron jobs go on day after day
PassDays(n) ==
    /\ today + n <= MaxDay
    /\ today' = today + n
    /\ UNCHANGED <<uniqueKey, lastRun, prio, food_items, chat_ids, queue, nextId, pop, drain, post, events, db_up, render, rateLimit, clock, requests, limitQuery, secrets, response, callback, checkQuery>>

\* the owner edits an item of the inventory: a new name and another expiration date
EditItem(i, date) ==
    /\ i = "yogurt"
    /\ food_items[i].name = "old"
    /\ food_items' = [food_items EXCEPT ![i].name = "new", ![i].expiration_date = date]
    /\ UNCHANGED <<today, uniqueKey, lastRun, prio, chat_ids, queue, nextId, pop, drain, post, events, db_up, render, rateLimit, clock, requests, limitQuery, secrets, response, callback, checkQuery>>

\* an outage of the database begins
DbDown ==
    /\ db_up
    /\ events < MaxEvents
    /\ db_up' = FALSE
    /\ events' = events + 1
    /\ UNCHANGED <<today, uniqueKey, lastRun, prio, food_items, chat_ids, queue, nextId, pop, drain, post, render, rateLimit, clock, requests, limitQuery, secrets, response, callback, checkQuery>>

\* the outage ends
DbUp ==
    /\ ~db_up
    /\ db_up' = TRUE
    /\ UNCHANGED <<today, uniqueKey, lastRun, prio, food_items, chat_ids, queue, nextId, pop, drain, post, events, render, rateLimit, clock, requests, limitQuery, secrets, response, callback, checkQuery>>

(* ------------------------- specification ------------------------------ *)
\* milk and yogurt belong to a user with a chat id, eggs to a user without one
OwnerOf(i) == IF i = "eggs" THEN "u2" ELSE "u1"

InitialDate(i) == IF i = "yogurt" THEN 3 ELSE 1

\* the inventory at the start
Inventory0 ==
    [i \in Items |-> [user_id |-> OwnerOf(i), name |-> "old", expiration_date |-> InitialDate(i)]]

\* no Populator run has completed
NoRun == [rows |-> NULL, clean |-> FALSE, day |-> 0, items |-> Inventory0, nextId |-> 1]

\* no priority computed
NoPriority == [days |-> 0, populator |-> "none", check_items |-> "none"]

Init ==
    /\ today = 0
    /\ uniqueKey \in BOOLEAN
    /\ food_items = Inventory0
    /\ chat_ids = [u \in Users |-> IF u = "u1" THEN 111 ELSE NULL]
    /\ queue = {}
    /\ nextId = 1
    /\ pop = [p \in Populators |-> PopIdle]
    /\ drain = [d \in Drainers |-> DrainIdle]
    /\ post = PostIdle
    /\ events = 0
    /\ db_up = TRUE
    /\ lastRun = NoRun
    /\ prio = NoPriority
    /\ checkQuery = NoCheckQuery
    /\ callback = NoCallback
    /\ response = NoResponse
    /\ secrets = NoSecrets
    /\ limitQuery = NoLimitQuery
    /\ requests = <<>>
    /\ clock = 0
    /\ rateLimit = NoRateLimit
    /\ render = NoRender

\* the dates an edit leaves an item with: out of the horizon, the date of the milk, or
\* the date it had (only the name changes)
EditDates == {EditedDate, InitialDate("milk"), InitialDate("yogurt")}

\* no handler invocation is in flight
Quiet ==
    /\ \A p \in Populators : pop[p].pc = "idle"
    /\ \A d \in Drainers : drain[d].pc = "idle"
    /\ post.pc = "idle"

\* the scheduled operation: the triggers fire one after the other, each invocation
\* ends before the next begins; the day and the inventory change between invocations,
\* the database may fail at any call
Next ==
    \/ Quiet /\ \E body \in RequestBodies : PopulatorStart("P1", body)
    \/ PopulatorOffset("P1")
    \/ PopulatorReturn("P1")
    \/ Quiet /\ DrainerStart("D1")
    \/ DrainerMark("D1")
    \/ DrainerSend("D1")
    \/ DrainerRecord("D1")
    \/ DrainerReturn("D1")
    \/ DrainerCrash("D1")
    \/ Quiet /\ PostStart
    \/ PostInsert
    \/ PostReturn
    \/ Quiet /\ AdvanceDay
    \/ Quiet /\ \E i \in Items : \E date \in EditDates : EditItem(i, date)
    \/ DbDown
    \/ DbUp

Spec == Init /\ [][Next]_vars

\* overlapping invocations: the triggers fire while other invocations are in flight;
\* the Populator is started by its cron job
NextOverlap ==
    \/ \E p \in Populators : PopulatorStart(p, NULL)
    \/ \E p \in Populators : PopulatorOffset(p)
    \/ \E p \in Populators : PopulatorReturn(p)
    \/ \E d \in Drainers : DrainerStart(d)
    \/ \E d \in Drainers : DrainerMark(d)
    \/ \E d \in Drainers : DrainerSend(d)
    \/ \E d \in Drainers : DrainerRecord(d)
    \/ \E d \in Drainers : DrainerReturn(d)
    \/ PostStart
    \/ PostInsert
    \/ PostReturn
    \/ AdvanceDay
    \/ \E i \in Items : EditItem(i, EditedDate)
    \/ DbDown
    \/ DbUp

SpecOverlap == Init /\ [][NextOverlap]_vars

\* the Drainer under its schedule: its cron job fires for ever, every invocation runs
\* to completion, the Populator stages rows, and an outage of the database ends
NextLive ==
    \/ Quiet /\ PopulatorStart("P1", NULL)
    \/ PopulatorOffset("P1")
    \/ PopulatorReturn("P1")
    \/ Quiet /\ DrainerCron("D1")
    \/ DrainerMark("D1")
    \/ DrainerSend("D1")
    \/ DrainerRecord("D1")
    \/ DrainerReturn("D1")
    \/ DbDown
    \/ DbUp

Fairness ==
    /\ WF_vars(PopulatorOffset("P1"))
    /\ WF_vars(PopulatorReturn("P1"))
    /\ WF_vars(Quiet /\ DrainerCron("D1"))
    /\ WF_vars(DrainerMark("D1"))
    /\ WF_vars(DrainerSend("D1"))
    /\ WF_vars(DrainerRecord("D1"))
    /\ WF_vars(DrainerReturn("D1"))
    /\ WF_vars(DbUp)

SpecLive == Init /\ [][NextLive]_vars /\ Fairness

\* the queue over more than a retention window: rows are staged and drained, days pass,
\* the Populator sweeps
NextRetention ==
    \/ Quiet /\ PopulatorStart("P1", NULL)
    \/ PopulatorOffset("P1")
    \/ PopulatorReturn("P1")
    \/ Quiet /\ DrainerStart("D1")
    \/ DrainerMark("D1")
    \/ DrainerSend("D1")
    \/ DrainerRecord("D1")
    \/ DrainerReturn("D1")
    \/ DrainerCrash("D1")
    \/ Quiet /\ PostStart
    \/ PostInsert
    \/ PostReturn
    \/ Quiet /\ \E n \in 1..MaxDay : PassDays(n)
    \/ DbDown
    \/ DbUp

SpecRetention == Init /\ [][NextRetention]_vars

\* the same schedule, with calls that may never answer
NextStuck ==
    \/ NextLive
    \/ DrainerCallHangs("D1")

SpecStuck == Init /\ [][NextStuck]_vars /\ Fairness

(* ------------- the priority functions on their own -------------------- *)
DaysDomain == (-PriorityDays..PriorityDays) \cup {100}

InitPriority ==
    /\ today = 0
    /\ uniqueKey = FALSE
    /\ food_items = Inventory0
    /\ chat_ids = [u \in Users |-> IF u = "u1" THEN 111 ELSE NULL]
    /\ queue = {}
    /\ nextId = 1
    /\ pop = [p \in Populators |-> PopIdle]
    /\ drain = [d \in Drainers |-> DrainIdle]
    /\ post = PostIdle
    /\ events = 0
    /\ db_up = TRUE
    /\ lastRun = NoRun
    /\ prio \in {[NoPriority EXCEPT !.days = d] : d \in DaysDomain}
    /\ checkQuery = NoCheckQuery
    /\ callback = NoCallback
    /\ response = NoResponse
    /\ secrets = NoSecrets
    /\ limitQuery = NoLimitQuery
    /\ requests = <<>>
    /\ clock = 0
    /\ rateLimit = NoRateLimit
    /\ render = NoRender

\* populate-expiring-queue computes the priority of the input
ApplyGetNotificationPriority ==
    /\ prio.populator = "none"
    /\ prio' = [prio EXCEPT !.populator = getNotificationPriority(prio.days)]
    /\ UNCHANGED <<today, uniqueKey, food_items, chat_ids, queue, nextId, pop, drain, post,
                   events, db_up, lastRun, render, rateLimit, clock, requests, limitQuery, secrets, response, callback, checkQuery>>

\* check-items-expiring computes the priority of the input
ApplyGetPriority ==
    /\ prio.check_items = "none"
    /\ prio' = [prio EXCEPT !.check_items = getPriority(prio.days)]
    /\ UNCHANGED <<today, uniqueKey, food_items, chat_ids, queue, nextId, pop, drain, post,
                   events, db_up, lastRun, render, rateLimit, clock, requests, limitQuery, secrets, response, callback, checkQuery>>

NextPriority ==
    \/ ApplyGetNotificationPriority
    \/ ApplyGetPriority

SpecPriority == InitPriority /\ [][NextPriority]_vars

(* ------------------ the message of a row on its own ------------------- *)
InitMessage ==
    /\ today = 0
    /\ uniqueKey = FALSE
    /\ food_items = Inventory0
    /\ chat_ids = [u \in Users |-> IF u = "u1" THEN 111 ELSE NULL]
    /\ queue = {}
    /\ nextId = 1
    /\ pop = [p \in Populators |-> PopIdle]
    /\ drain = [d \in Drainers |-> DrainIdle]
    /\ post = PostIdle
    /\ events = 0
    /\ db_up = TRUE
    /\ lastRun = NoRun
    /\ prio = NoPriority
    /\ checkQuery = NoCheckQuery
    /\ callback = NoCallback
    /\ response = NoResponse
    /\ secrets = NoSecrets
    /\ limitQuery = NoLimitQuery
    /\ requests = <<>>
    /\ clock = 0
    /\ rateLimit = NoRateLimit
    /\ render \in {[NoRender EXCEPT !.item = item] : item \in MessageItems}

\* process-expiring-queue renders the message of the row
ApplyCreateNotificationMessage ==
    /\ render.message = <<>>
    /\ render' = [render EXCEPT !.message = createNotificationMessage(render.item)]
    /\ UNCHANGED <<today, uniqueKey, food_items, chat_ids, queue, nextId, pop, drain, post,
                   events, db_up, lastRun, prio, rateLimit, clock, requests, limitQuery, secrets, response, callback, checkQuery>>

NextMessage == ApplyCreateNotificationMessage

SpecMessage == InitMessage /\ [][NextMessage]_vars

(* ------------------- the rate limiter on its own ---------------------- *)
InitRateLimit ==
    /\ today = 0
    /\ uniqueKey = FALSE
    /\ food_items = Inventory0
    /\ chat_ids = [u \in Users |-> IF u = "u1" THEN 111 ELSE NULL]
    /\ queue = {}
    /\ nextId = 1
    /\ pop = [p \in Populators |-> PopIdle]
    /\ drain = [d \in Drainers |-> DrainIdle]
    /\ post = PostIdle
    /\ events = 0
    /\ db_up = TRUE
    /\ lastRun = NoRun
    /\ prio = NoPriority
    /\ checkQuery = NoCheckQuery
    /\ callback = NoCallback
    /\ response = NoResponse
    /\ secrets = NoSecrets
    /\ limitQuery = NoLimitQuery
    /\ render = NoRender
    /\ rateLimit = NoRateLimit
    /\ clock = 0
    /\ requests = <<>>

NextRateLimit ==
    \/ \E clientIP \in Clients : TelegramSend(clientIP)
    \/ Tick

SpecRateLimit == InitRateLimit /\ [][NextRateLimit]_vars

(* ------------------ telegram-send, the whole handler ------------------- *)
InitTelegram ==
    /\ today = 0
    /\ uniqueKey = FALSE
    /\ food_items = Inventory0
    /\ chat_ids = [u \in Users |-> IF u = "u1" THEN 111 ELSE NULL]
    /\ queue = {}
    /\ nextId = 1
    /\ pop = [p \in Populators |-> PopIdle]
    /\ drain = [d \in Drainers |-> DrainIdle]
    /\ post = PostIdle
    /\ events = 0
    /\ db_up = TRUE
    /\ lastRun = NoRun
    /\ prio = NoPriority
    /\ checkQuery = NoCheckQuery
    /\ callback = NoCallback
    /\ render = NoRender
    /\ rateLimit = NoRateLimit
    /\ clock = 0
    /\ requests = <<>>
    /\ limitQuery = NoLimitQuery
    /\ secrets \in SecretChoices
    /\ response = NoResponse

NextTelegram ==
    \/ \E req \in TelegramRequests : TelegramRequest(req)
    \/ Tick

SpecTelegram == InitTelegram /\ [][NextTelegram]_vars

(* ------------------ handle-webhook-callback and the queue ---------------- *)
InitWebhook ==
    /\ today = 0
    /\ uniqueKey = TRUE
    /\ food_items = Inventory0
    /\ chat_ids = [u \in Users |-> IF u = "u1" THEN 111 ELSE NULL]
    /\ queue = {}
    /\ nextId = 1
    /\ pop = [p \in Populators |-> PopIdle]
    /\ drain = [d \in Drainers |-> DrainIdle]
    /\ post = PostIdle
    /\ events = 0
    /\ db_up = TRUE
    /\ lastRun = NoRun
    /\ prio = NoPriority
    /\ checkQuery = NoCheckQuery
    /\ callback = NoCallback
    /\ response = NoResponse
    /\ secrets \in [token : {Absent, "bot-token"}, sendSecret : {Absent},
                    serviceRoleKey : {Absent}]
    /\ limitQuery = NoLimitQuery
    /\ requests = <<>>
    /\ clock = 0
    /\ rateLimit = NoRateLimit
    /\ render = NoRender

\* the webhook is called while the Populator fills the queue
NextWebhook ==
    \/ \E payload \in WebhookPayloads, lookup \in ImageLookups, delivered \in BOOLEAN :
          WebhookCallback(payload, lookup, delivered)
    \/ Quiet /\ PopulatorStart("P1", NULL)
    \/ PopulatorOffset("P1")
    \/ PopulatorReturn("P1")

SpecWebhook == InitWebhook /\ [][NextWebhook]_vars

(* ----------------- the limit of the queue endpoint --------------------- *)
InitQueueLimit ==
    /\ today = 0
    /\ uniqueKey = FALSE
    /\ food_items = Inventory0
    /\ chat_ids = [u \in Users |-> IF u = "u1" THEN 111 ELSE NULL]
    /\ queue = {}
    /\ nextId = 1
    /\ pop = [p \in Populators |-> PopIdle]
    /\ drain = [d \in Drainers |-> DrainIdle]
    /\ post = PostIdle
    /\ events = 0
    /\ db_up = TRUE
    /\ lastRun = NoRun
    /\ prio = NoPriority
    /\ checkQuery = NoCheckQuery
    /\ callback = NoCallback
    /\ response = NoResponse
    /\ secrets = NoSecrets
    /\ render = NoRender
    /\ rateLimit = NoRateLimit
    /\ clock = 0
    /\ requests = <<>>
    /\ limitQuery \in {[NoLimitQuery EXCEPT !.param = param] : param \in LimitParams}

NextQueueLimit == ApplyQueueLimit

SpecQueueLimit == InitQueueLimit /\ [][NextQueueLimit]_vars

(* ------------------- rows staged by check-items-expiring ---------------- *)
\* the POST next to the Populator, with outages and with midnights, one of which may
\* fall into the construction of a record
NextStaging ==
    \/ Quiet /\ PostStart
    \/ Quiet /\ PostStartAtMidnight
    \/ PostInsert
    \/ PostReturn
    \/ Quiet /\ PopulatorStart("P1", NULL)
    \/ PopulatorOffset("P1")
    \/ PopulatorReturn("P1")
    \/ AdvanceDay
    \/ DbDown
    \/ DbUp

SpecStaging == Init /\ [][NextStaging]_vars

(* ----------------- the limit of check-items-expiring -------------------- *)
InitCheckLimit ==
    /\ today = 0
    /\ uniqueKey = FALSE
    /\ food_items = Inventory0
    /\ chat_ids = [u \in Users |-> IF u = "u1" THEN 111 ELSE NULL]
    /\ queue = {}
    /\ nextId = 1
    /\ pop = [p \in Populators |-> PopIdle]
    /\ drain = [d \in Drainers |-> DrainIdle]
    /\ post = PostIdle
    /\ events = 0
    /\ db_up = TRUE
    /\ lastRun = NoRun
    /\ prio = NoPriority
    /\ callback = NoCallback
    /\ response = NoResponse
    /\ secrets = NoSecrets
    /\ render = NoRender
    /\ rateLimit = NoRateLimit
    /\ clock = 0
    /\ requests = <<>>
    /\ limitQuery = NoLimitQuery
    /\ checkQuery \in {[NoCheckQuery EXCEPT !.method = method, !.param = param] :
                          method \in {"GET", "POST"}, param \in CheckLimitParams}

NextCheckLimit == ApplyCheckLimit

SpecCheckLimit == InitCheckLimit /\ [][NextCheckLimit]_vars

(* ============================ properties ============================== *)
\* the priority table of the specification: <= 0 urgent, 1..2 high, 3..6 medium, >= 7 low
ExpectedPriority(d) ==
    IF d <= 0 THEN "urgent"
    ELSE IF 1 <= d /\ d <= 2 THEN "high"
    ELSE IF 3 <= d /\ d <= 6 THEN "medium"
    ELSE "low"

\* the tier of a priority, urgent the most urgent
TierRank(p) ==
    IF p = "urgent" THEN 4 ELSE IF p = "high" THEN 3 ELSE IF p = "medium" THEN 2 ELSE 1

\* the ids of the rows a Drainer invocation has sent successfully
SentBy(d) ==
    {drain[d].sel[k].id : k \in {j \in 1..Len(drain[d].outcomes) : drain[d].outcomes[j]}}

C3_OneRowPerKey ==
    \A r \in queue : \A s \in queue : SameKey(r, s) => r.id = s.id

\* C4: no queue row is sent by both of two overlapping Drainer invocations
C4_NoRowSentByBoth ==
    \A d \in Drainers : \A e \in Drainers :
        (d # e /\ drain[d].peer /\ drain[e].peer) => SentBy(d) \cap SentBy(e) = {}

\* C5: of two rows an invocation has sent, the one sent first is of a tier at least as
\* urgent (urgent, high, medium, low), and within a tier not scheduled later
C5_SentInTierOrder ==
    \A d \in Drainers : \A a \in 1..Len(drain[d].outcomes) : \A b \in 1..Len(drain[d].outcomes) :
        a < b =>
            LET x == drain[d].sel[a]
                y == drain[d].sel[b]
            IN /\ TierRank(x.notification_priority) >= TierRank(y.notification_priority)
               /\ x.notification_priority = y.notification_priority
                      => x.scheduled_at <= y.scheduled_at

C7_NoTransitionSkipsProcessing ==
    [][\A r \in queue : \A s \in queue' :
          (r.id = s.id /\ s.status \in {"sent", "failed"} /\ r.status # s.status)
              => r.status = "processing"]_vars

\* C8: every queue row has a chat_id that is neither null nor 0 and is the chat id of
\* its owner; an item whose owner has none has no row
C8_RowsCarryOwnersChat ==
    \A r \in queue :
        /\ r.chat_id # NULL
        /\ r.chat_id # 0
        /\ r.chat_id = chat_ids[r.user_id]
        /\ chat_ids[food_items[r.food_item_id].user_id] # NULL

\* the Populator staged rows on day 0, when the eggs of the user without a chat id matched
\* offset 1, and a POST on day 1 fetched the eggs and stored rows for the two other items
C8_Witness ==
    /\ lastRun.rows = 2
    /\ lastRun.day = 0
    /\ today = 1
    /\ food_items["eggs"].expiration_date = 1
    /\ post.pc = "done"
    /\ post.found = 3
    /\ post.inserted = 2
    /\ \E r \in queue : r.scheduled_at = 0 /\ r.food_item_id = "milk" /\ r.chat_id = 111

\* C9: getNotificationPriority and getPriority both follow the specification's table
C9_BothFollowTheTable ==
    /\ prio.populator # "none" => prio.populator = ExpectedPriority(prio.days)
    /\ prio.check_items # "none" => prio.check_items = ExpectedPriority(prio.days)

\* both functions have been applied to -1, the input getPriority tests separately
C9_Witness ==
    /\ prio.days = -1
    /\ prio.populator = "urgent"
    /\ prio.check_items = "urgent"

C11_FailureIffEveryOffsetFailed ==
    \A p \in Populators :
        pop[p].pc = "done" =>
            LET allFailed == \A k \in 1..Len(pop[p].resp.results) : pop[p].resp.results[k].error
                twoXX == pop[p].resp.status \in 200..299
            IN /\ allFailed => (~pop[p].resp.success /\ ~twoXX)
               /\ ~allFailed => (pop[p].resp.success /\ twoXX)

\* C12: the response of a Populator run is returned only after all offsets 0..7 have been
\* attempted, in order, whatever failed; and the rows the run wrote are in the queue
C12_AllOffsetsAttempted ==
    \A p \in Populators :
        /\ pop[p].pc = "run" => Len(pop[p].results) = pop[p].days
        /\ pop[p].pc = "done" =>
              /\ Len(pop[p].resp.results) = DEFAULT_DAYS_AHEAD + 1
              /\ \A k \in 1..Len(pop[p].resp.results) : pop[p].resp.results[k].days_ahead = k - 1
              /\ \A id \in pop[p].wrote : \E r \in queue : r.id = id

\* a run has completed in which offset 1 failed and offset 3, after it, wrote its row
C12_Witness ==
    /\ pop["P1"].pc = "done"
    /\ pop["P1"].resp.results[2].error
    /\ ~pop["P1"].resp.results[4].error
    /\ pop["P1"].resp.results[4].processed = 1
    /\ \E r \in queue : r.id \in pop["P1"].wrote /\ r.days_until_expiry = 3

\* the sum of a sequence of numbers
RECURSIVE SumSeq(_)
SumSeq(s) == IF s = <<>> THEN 0 ELSE Head(s) + SumSeq(Tail(s))

C16_FetchFailureAborts ==
    [][\A d \in Drainers :
          (drain[d].pc = "idle" /\ drain'[d].pc # "idle" /\ ~db_up) =>
              /\ drain'[d].pc = "done"
              /\ ~drain'[d].resp.success
              /\ drain'[d].resp.status \notin 200..299
              /\ drain'[d].sel = <<>>
              /\ drain'[d].outcomes = <<>>
              /\ queue' = queue]_vars

\* an invocation has ended on a failed fetch while a pending row waits in the queue
C16_Witness ==
    /\ drain["D1"].pc = "done"
    /\ drain["D1"].resp.status = 500
    /\ ~drain["D1"].resp.success
    /\ drain["D1"].outcomes = <<>>
    /\ \E r \in queue : r.status = "pending"

C19_RunCoversItsHorizon ==
    \A p \in Populators :
        pop[p].pc = "done" =>
            LET H == IF pop[p].body = NULL THEN DEFAULT_DAYS_AHEAD ELSE pop[p].body
            IN /\ Len(pop[p].results) = H + 1
               /\ \A k \in 1..Len(pop[p].results) : pop[p].results[k].days_ahead = k - 1
               /\ \A r \in queue : r.id \in pop[p].wrote => r.days_until_expiry <= H

\* C20: a Populator run whose retention sweep failed goes on to the offsets, and when it
\* completes it has attempted every offset 0..7 and returns the response of a normal run
C20_SweepFailureDoesNotAbort ==
    \A p \in Populators :
        (pop[p].pc \in {"run", "done"} /\ ~pop[p].swept) =>
            /\ pop[p].pc = "run" => pop[p].resp = NoPopResponse
            /\ pop[p].pc = "done" =>
                  /\ pop[p].resp = PopResponse(pop[p].results, pop[p].total)
                  /\ pop[p].resp.status = 200
                  /\ Len(pop[p].results) = DEFAULT_DAYS_AHEAD + 1

\* a run whose sweep failed has completed and has staged the yogurt at offset 3
C20_Witness ==
    /\ pop["P1"].pc = "done"
    /\ ~pop["P1"].swept
    /\ pop["P1"].resp.total_processed > 0
    /\ \E r \in queue : r.id \in pop["P1"].wrote /\ r.days_until_expiry = 3

\* the templates of the specification: the alert for days <= 0, the warning for 1 day,
\* the reminder with the number of days from 2 days on, each followed by the category
ExpectedMessage(item) ==
    (IF item.days_until_expiry <= 0
     THEN <<"ALERT: Your ", item.quantity, " ", item.unit, " of ", item.item_name,
            " expires TODAY!">>
     ELSE IF item.days_until_expiry = 1
     THEN <<"WARNING: Your ", item.quantity, " ", item.unit, " of ", item.item_name,
            " expires TOMORROW!">>
     ELSE <<"REMINDER: Your ", item.quantity, " ", item.unit, " of ", item.item_name,
            " expires in ", item.days_until_expiry, " days.">>)
    \o <<"\nCategory: ", item.category>>

\* C21: the message rendered for a row is the template of its days_until_expiry filled
\* with the row's quantity, unit, name and category
C21_MessageFollowsTemplates ==
    render.message # <<>> => render.message = ExpectedMessage(render.item)

\* the requests of client c accepted at a time in [t, t + RATE_LIMIT_WINDOW)
AcceptedIn(c, t) ==
    {k \in DOMAIN requests : /\ requests[k].client = c
                             /\ requests[k].ok
                             /\ requests[k].time >= t
                             /\ requests[k].time < t + RATE_LIMIT_WINDOW}

\* C22: in every interval of the length of the window, telegram-send has accepted at
\* most RATE_LIMIT_REQUESTS requests of one client
C22_AtMostLimitInAnyWindow ==
    \A c \in Clients : \A t \in 0..MaxClock :
        Cardinality(AcceptedIn(c, t)) <= RATE_LIMIT_REQUESTS

\* C23: every row that is pending is, later, sent or failed
C23_PendingRowIsAttempted ==
    \A id \in 1..(MaxEvents * Cardinality(Items)) :
        (\E r \in queue : r.id = id /\ r.status = "pending")
            ~> (\E r \in queue : r.id = id /\ r.status \in {"sent", "failed"})

\* C24: a Drainer invocation that has selected rows completes, also when a call it makes
\* never answers
C24_InvocationCompletes ==
    (drain["D1"].pc \in {"mark", "send", "record", "hung"}) ~> (drain["D1"].pc = "done")

\* the call an invocation issues in the n-th place when it handles its rows strictly one
\* after another: for the k-th selected row the write of processing, the send, the write
\* of the outcome
InTurn(d, n) ==
    LET k == (n - 1) \div 3 + 1
        step == (n - 1) % 3
        call == drain[d].log[n]
    IN /\ k <= Len(drain[d].sel)
       /\ call.id = drain[d].sel[k].id
       /\ step = 0 => call.op = "processing"
       /\ step = 1 => call.op = "send"
       /\ step = 2 => call.op = IF drain[d].outcomes[k] THEN "sent" ELSE "failed"

\* C25: the calls of a Drainer invocation come strictly in turn: for each selected row
\* the write of processing, then its send, then the write of its outcome, and only then
\* the first call for the next row
C25_RowsOneAfterAnother ==
    \A d \in Drainers : \A n \in 1..Len(drain[d].log) : InTurn(d, n)

\* a run over two rows has completed: six calls, the first row failed, the second sent
C25_Witness ==
    /\ drain["D1"].pc = "done"
    /\ Len(drain["D1"].sel) = 2
    /\ Len(drain["D1"].log) = 6
    /\ drain["D1"].log[3].op = "failed"
    /\ drain["D1"].log[6].op = "sent"

\* C26: the limit the queue endpoint passes to its query is a whole number from 1 to
\* 1000, and it is 100 when the parameter is absent or not a number
C26_LimitWithinBounds ==
    limitQuery.done =>
        /\ limitQuery.limit % Tenths = 0
        /\ limitQuery.limit >= 1 * Tenths
        /\ limitQuery.limit <= QUEUE_MAX_LIMIT * Tenths
        /\ limitQuery.param.kind \in {"absent", "text"} =>
              limitQuery.limit = QUEUE_DEFAULT_LIMIT * Tenths

\* the step is a status write of a Drainer invocation
DrainerWrites ==
    \E d \in Drainers :
        /\ Len(drain'[d].log) > Len(drain[d].log)
        /\ drain'[d].log[Len(drain'[d].log)].op \in {"processing", "sent", "failed"}

\* C27: no status write of a Drainer invocation changes the status of a row that is sent
\* or failed, also when two invocations overlap
C27_DrainerKeepsTerminal ==
    [][DrainerWrites =>
          \A r \in queue : \A s \in queue' :
              (r.id = s.id /\ r.status \in {"sent", "failed"}) => s.status = r.status]_vars

\* the rows invocation d selected that have the status st in the table
SelectedWithStatus(d, st) ==
    {k \in 1..Len(drain[d].sel) :
        \E r \in queue : r.id = drain[d].sel[k].id /\ r.status = st}

\* C28: when a Drainer invocation has completed, total_sent is the number of the rows it
\* selected that are sent in the table, and total_failed the number that are failed
C28_CountsMatchTheTable ==
    \A d \in Drainers :
        (drain[d].pc = "done" /\ drain[d].resp.success) =>
            /\ drain[d].resp.total_sent = Cardinality(SelectedWithStatus(d, "sent"))
            /\ drain[d].resp.total_failed = Cardinality(SelectedWithStatus(d, "failed"))

\* the sends invocation d has issued for the row id
SendsOf(d, id) == {n \in 1..Len(drain[d].log) : drain[d].log[n] = [op |-> "send", id |-> id]}

\* the ids of the rows invocation d selected
SelectedIds(d) == {drain[d].sel[k].id : k \in 1..Len(drain[d].sel)}

C30_DrainerChangesOnlyStatus ==
    [][drain' # drain =>
          /\ {r.id : r \in queue} = {s.id : s \in queue'}
          /\ Cardinality(queue') = Cardinality(queue)
          /\ \A r \in queue : \A s \in queue' :
                (r.id = s.id /\ s # r) =>
                    /\ s = [r EXCEPT !.status = s.status, !.processed_at = s.processed_at]
                    /\ \E d \in Drainers :
                          /\ Len(drain'[d].log) > Len(drain[d].log)
                          /\ r.id \in SelectedIds(d)]_vars

\* a run has completed and a row it selected is now sent, with its processed_at set and
\* every other field as it was selected, next to a row the run did not select
C30_Witness ==
    /\ drain["D1"].pc = "done"
    /\ \E k \in 1..Len(drain["D1"].sel) :
          [drain["D1"].sel[k] EXCEPT !.status = "sent", !.processed_at = today] \in queue
    /\ \E r \in queue : r.id \notin SelectedIds("D1")

\* the ids of the rows of a table
Ids(q) == {r.id : r \in q}

\* the step is the start of a Populator run whose retention sweep got through
SweepStep == \E p \in Populators : pop[p].pc = "idle" /\ pop'[p].pc = "run" /\ pop'[p].swept

\* C31: a retention sweep that gets through deletes every row created more than 7 days
\* before, whatever its status; a row leaves the queue only that way, so a row created
\* within the last 7 days is never deleted; and no step changes the created_at of a row
C31_SweepDeletesExactlyOldRows ==
    [][/\ SweepStep => \A r \in queue : r.created_at < today - RETENTION_DAYS => r.id \notin Ids(queue')
       /\ \A r \in queue : r.id \notin Ids(queue') =>
             SweepStep /\ r.created_at < today - RETENTION_DAYS
       /\ \A r \in queue : \A s \in queue' : r.id = s.id => s.created_at = r.created_at]_vars

\* a sweep has run on day 8 or later: the first row staged is gone, a row staged within
\* the 7 days before the run is still there
C31_Witness ==
    /\ pop["P1"].pc = "run"
    /\ pop["P1"].swept
    /\ pop["P1"].days = 0
    /\ today > RETENTION_DAYS
    /\ nextId > 1
    /\ 1 \notin Ids(queue)
    /\ \E r \in queue : r.created_at >= today - RETENTION_DAYS

\* C32: the count the limiter stores for a client is between 1 and RATE_LIMIT_REQUESTS; a
\* rejected request leaves the Map as it is; and a request that arrives after the reset
\* time of the client's window is accepted and starts a window of the full length with
\* count 1
C32_StoredCountWithinLimit ==
    [][Len(requests') > Len(requests) =>
          LET answer == requests'[Len(requests')]
              c == answer.client
          IN /\ \A k \in Clients :
                   rateLimit'[k] # NoClientData =>
                       (rateLimit'[k].count >= 1 /\ rateLimit'[k].count <= RATE_LIMIT_REQUESTS)
             /\ ~answer.ok => rateLimit' = rateLimit
             /\ (rateLimit[c] # NoClientData /\ clock > rateLimit[c].resetTime) =>
                   /\ answer.ok
                   /\ rateLimit'[c] = [count |-> 1, resetTime |-> clock + RATE_LIMIT_WINDOW]]_vars

\* a client was rejected with its count at the limit, and its next request, after the
\* reset time, has been accepted and has started a new window with count 1
C32_Witness ==
    \E n \in 1..(Len(requests) - 1) :
        /\ requests[n].client = requests[Len(requests)].client
        /\ ~requests[n].ok
        /\ requests[Len(requests)].ok
        /\ requests[Len(requests)].time = clock
        /\ rateLimit[requests[n].client] = [count |-> 1, resetTime |-> clock + RATE_LIMIT_WINDOW]

\* the request carries the configured secret, or the service role key as Bearer token
Authentic(req) ==
    \/ secrets.sendSecret # Absent /\ req.secret = secrets.sendSecret
    \/ secrets.serviceRoleKey # Absent /\ req.bearer = secrets.serviceRoleKey

\* C33: telegram-send calls the Telegram API only for an authenticated request; and a
\* request that is not authenticated, or whose body is not JSON with chat_id and text,
\* is rejected without the rate limiting check: nothing is sent and the Map of the
\* limiter stays as it is
C33_OnlyAuthenticatedRequestsForwarded ==
    [][(response' # response \/ rateLimit' # rateLimit) =>
          LET r == response'
          IN /\ r.forwarded => Authentic(r.req)
             /\ (~Authentic(r.req) \/ r.req.body # "complete") =>
                   /\ ~r.checked
                   /\ ~r.forwarded
                   /\ r.status \in {400, 401, 405, 415, 500}
                   /\ rateLimit' = rateLimit]_vars

\* a client with a window open has sent a request with a wrong secret and a wrong token:
\* 401, and its count is still 1
C33_Witness ==
    /\ secrets.sendSecret # Absent
    /\ secrets.serviceRoleKey # Absent
    /\ response.status = 401
    /\ response.req.secret = "guess"
    /\ response.req.bearer = "guess"
    /\ response.req.body = "complete"
    /\ rateLimit[response.req.client].count = 1

\* C34: handle-webhook-callback calls the Telegram API at most once per request, and
\* only when the payload has a record with a chat_id, type INSERT and table
\* expiring_items_queue; every POST whose body is valid JSON is answered 200 with
\* status ok, also when the notification fails; the queue is never modified
C34_WebhookAnswersOk ==
    [][callback' # callback =>
          LET c == callback'
          IN /\ Len(c.calls) <= 1
             /\ c.calls # <<>> =>
                   /\ c.req.record \in {"row", "partial"}
                   /\ c.req.type = "INSERT"
                   /\ c.req.table = "expiring_items_queue"
             /\ (c.req.method = "POST" /\ c.req.json # "invalid") =>
                   c.status = 200 /\ c.body = "ok"
             /\ queue' = queue]_vars

\* the body null is answered
C34_Witness ==
    /\ callback.req.method = "POST"
    /\ callback.req.json = "null"
    /\ queue # {}

\* C35: for every supplied limit, also 0, a negative number and a text, each query of
\* check-items-expiring is given a row limit between 1 and 10000, and on POST the
\* limits of the food and the cosmetics query together do not exceed the limit
C35_RowLimitAlwaysApplied ==
    checkQuery.done =>
        /\ checkQuery.applied # <<>>
        /\ \A k \in 1..Len(checkQuery.applied) :
              checkQuery.applied[k] >= 1 /\ checkQuery.applied[k] <= MAX_LIMIT
        /\ SumSeq(checkQuery.applied) <= MAX_LIMIT
        /\ SumSeq(checkQuery.applied) * Tenths <= checkQuery.limit

\* a request with limit 0 has been served
C35_Witness ==
    /\ checkQuery.done
    /\ checkQuery.param = [kind |-> "numeral", tenths |-> 0]

\* C36: a row the POST of check-items-expiring inserts is pending and its priority is
\* priority(days_until_expiry); a record that fails to insert does not stop the records
\* after it; the count of inserted records grows with the rows stored, items_inserted
\* is that count, and items_inserted <= items_with_chat_id <= items_found
C36_PostRowsFollowTheContract ==
    [][post' # post =>
          /\ \A r \in queue' \ queue :
                /\ r.status = "pending"
                /\ r.notification_priority = ExpectedPriority(r.days_until_expiry)
          /\ post.pc = "insert" =>
                /\ post'.inserted - post.inserted = Cardinality(queue') - Cardinality(queue)
                /\ post.idx < Len(post.records) =>
                      post'.pc = "insert" /\ post'.idx = post.idx + 1
          /\ (post'.pc = "done" /\ post'.resp.status = 200) =>
                /\ post'.resp.items_inserted = post'.inserted
                /\ post'.resp.items_inserted <= post'.resp.items_with_chat_id
                /\ post'.resp.items_with_chat_id <= post'.resp.items_found]_vars

\* a POST has answered after the insert of its first record failed and the second
\* was stored
C36_Witness ==
    /\ post.pc = "done"
    /\ Len(post.records) = 2
    /\ post.resp.items_inserted = 1
    /\ post.resp.items_found = 3
    /\ \E r \in queue : r.food_item_id = post.records[2].food_item_id
    /\ \A r \in queue : r.food_item_id # post.records[1].food_item_id

====
